---- MODULE Spec2Model ----
(***************************************************************************)
(* Real-time presence and event delivery of the backend SocketService      *)
(* (socket.service.ts): the connection registry userSockets, the presence  *)
(* broadcasts, the Socket.io rooms and the authentication middleware.      *)
(***************************************************************************)
EXTENDS Naturals, Integers, Sequences, FiniteSets, TLC

\* ------------------------------------------------------------------ bounds
MaxUsers == 2
MaxConns == 3

UserIds == { "u" \o ToString(i) : i \in 1..MaxUsers }
Conns == 1..MaxConns

\* ------------------------------------------------------------------ values
\* JavaScript's undefined, for a token, a user id or a Map lookup.
Undefined == "undefined"

\* `x` in a boolean position: undefined and the empty string are falsy.
Truthy(x) == x # Undefined /\ x # ""

\* ------------------------------------------------------------------ JWTService
\* jwt.sign(payload, JWT_ACCESS_SECRET, {expiresIn}) for user u, still fresh.
generateAccessToken(u) == "access." \o u
\* The same token after JWT_ACCESS_EXPIRY has passed.
ExpiredAccessToken(u) == "expired." \o u
\* jwt.sign(payload, JWT_REFRESH_SECRET, ...): signed with the other secret.
generateRefreshToken(u) == "refresh." \o u

Tokens ==
    { generateAccessToken(u) : u \in UserIds }
        \cup { ExpiredAccessToken("u1"), generateRefreshToken("u1") }

\* verifyAccessToken(token): the decoded payload's id, or a throw
\* ("Invalid or expired access token") when jwt.verify rejects the token.
verifyAccessTokenThrows(token) ==
    \A u \in UserIds : token # generateAccessToken(u)

verifyAccessToken(token) ==
    CHOOSE u \in UserIds : token = generateAccessToken(u)

\* ------------------------------------------------------------------ handshake
\* socket.handshake: auth.token, and the Authorization header as the words
\* split(" ") yields (the empty sequence when the header is absent).
Handshakes ==
    [ authToken : {Undefined, ""} \cup Tokens,
      authorization : {<< >>} \cup { <<"Bearer", t>> : t \in Tokens }
                              \cup { <<t>> : t \in Tokens } ]

\* socket.handshake.headers.authorization?.split(" ")[1]
BearerToken(words) == IF Len(words) >= 2 THEN words[2] ELSE Undefined

\* socket.handshake.auth.token || headers.authorization?.split(" ")[1]
HandshakeToken(hs) ==
    IF Truthy(hs.authToken) THEN hs.authToken ELSE BearerToken(hs.authorization)

\* The mutant: a handshake without a token is let through.
authenticateSocketNoTokenCheck(hs) ==
    LET token == HandshakeToken(hs) IN
    IF Truthy(token) /\ verifyAccessTokenThrows(token)
    THEN [ok |-> FALSE, userId |-> Undefined]
    ELSE IF ~Truthy(token)
    THEN [ok |-> TRUE, userId |-> Undefined]
    ELSE [ok |-> TRUE, userId |-> verifyAccessToken(token)]

\* authenticateSocket(socket, next): ok is "next() was called without an
\* error", userId is what was stored on the socket.
authenticateSocket(hs) ==
    LET token == HandshakeToken(hs) IN
    IF ~Truthy(token)
    THEN [ok |-> FALSE, userId |-> Undefined]
    ELSE IF verifyAccessTokenThrows(token)
    THEN [ok |-> FALSE, userId |-> Undefined]
    ELSE [ok |-> TRUE, userId |-> verifyAccessToken(token)]

\* ------------------------------------------------------------------ Map
\* A JavaScript Map: its entries in insertion order, keys unique.
EmptyMap == << >>

MapIndex(m, k) ==
    IF \E i \in 1..Len(m) : m[i].key = k
    THEN CHOOSE i \in 1..Len(m) : m[i].key = k
    ELSE 0

MapHas(m, k) == MapIndex(m, k) # 0

\* Map.get: the caller checks MapHas first (undefined otherwise).
MapGet(m, k) == m[MapIndex(m, k)].value

MapSet(m, k, v) ==
    IF MapHas(m, k)
    THEN [m EXCEPT ![MapIndex(m, k)].value = v]
    ELSE Append(m, [key |-> k, value |-> v])

MapDelete(m, k) ==
    IF MapHas(m, k)
    THEN [i \in 1..(Len(m) - 1) |->
            IF i < MapIndex(m, k) THEN m[i] ELSE m[i + 1]]
    ELSE m

\* Array.from(m.keys())
MapKeys(m) == [i \in 1..Len(m) |-> m[i].key]

\* ------------------------------------------------------------------ rooms
\* The Socket.io adapter's rooms: room name -> set of socket ids. A room
\* exists while it has a member.
roomOfUser(userId) == "user:" \o userId

\* socket.join(room)
Join(r, sid, room) ==
    IF room \in DOMAIN r
    THEN [r EXCEPT ![room] = @ \cup {sid}]
    ELSE [x \in DOMAIN r \cup {room} |-> IF x = room THEN {sid} ELSE r[x]]

\* The mutant: the closing socket's own rooms are dropped, but the socket
\* stays a member of the rooms it shares with other sockets.
LeaveAllSharedKept(r, sid) ==
    [x \in { y \in DOMAIN r : r[y] # {sid} } |-> r[x]]

\* The mutant: a closing socket stays in its rooms.
LeaveAllNone(r, sid) == r

\* What Socket.io does with a closing socket before it emits "disconnect":
\* the socket leaves every room it is in.
LeaveAll(r, sid) ==
    [x \in { y \in DOMAIN r : r[y] # {sid} } |-> r[x] \ {sid}]

\* How many HTTP requests that store and push a row are in progress.
MaxRequests == 1
Requests == 1..MaxRequests

\* How many sockets the browser makes with io().
MaxClientSockets == 2
ClientSockets == 1..MaxClientSockets

\* How many verifyOTP calls are made against the one OTP document.
MaxVerifies == 4
Verifies == 1..MaxVerifies

\* How many getOrCreateConversation requests are made.
MaxGetOrCreates == 2
GetOrCreates == 1..MaxGetOrCreates

\* ------------------------------------------------------------------ state
VARIABLES
    io,            \* this.io # null: initialize() has run
    nextId,        \* the next socket.id the transport hands out
    connState,     \* per socket: NEW, CONNECTING, VERIFIED, REJECTED, ADMITTED, EVICTED
    credentialOk,  \* per socket: its handshake carried a token jwt.verify accepts
    socketUserId,  \* per socket: (socket as any).userId
    userSockets,   \* this.userSockets: Map userId -> Set of socket ids
    rooms,         \* the adapter's rooms
    outbox,        \* the events emitted by the handler that ran last
    emitted        \* per user id: how many online / offline events so far

\* The same handlers statement by statement, as the event loop runs them.
VARIABLES
    running,       \* the socket whose handler holds the thread, 0 when none
    pc,            \* per socket: the statement its handler is at
    phase,         \* per socket: PENDING, ADMITTING, LIVE, CLOSING, GONE
    owner,         \* per socket: (socket as any).userId
    heap,          \* the Set objects allocated so far: reference -> members
    registry,      \* this.userSockets as a Map userId -> reference to a Set
    held,          \* per socket: the handler's local userSocketSet reference
    sawFirst,      \* per socket: its handler found no entry for the user
    announced      \* presence events emitted: [online, offline] counts

mainVars ==
    << io, nextId, connState, credentialOk, socketUserId, userSockets, rooms,
       outbox, emitted >>

loopVars ==
    << running, pc, phase, owner, heap, registry, held, sawFirst, announced >>

\* The transport under the sockets and the rooms clients subscribe to.
VARIABLES
    transportOpen, \* per socket: its transport still accepts writes
    subscribed,    \* per socket: the topics it asked to join and did not leave
    repeated       \* per socket: handleDisconnect ran for it more than once

routerVars == << transportOpen, subscribed, repeated >>

\* The transport between the server and the clients, packet by packet.
VARIABLES
    wire,          \* per socket: the packets written to it that are on their way
    received,      \* per socket: the packets its client has got, in order of arrival
    serial         \* how many delivery calls were followed down to the transport

wireVars == << wire, received, serial >>

\* The HTTP requests that store a row and then push it to the recipient.
VARIABLES
    messageRows,      \* the requests whose Message document is in the store
    notificationRows, \* the requests whose Notification document is in the store
    reqAt             \* per request: the statement it has reached

storeVars == << messageRows, notificationRows, reqAt >>

\* The home page of a signed-in client that follows every user.
VARIABLES
    statusFeed,    \* the user:status packets on their way to the page's socket
    snapshot,      \* the getFollowingWithStatus call: where it is, what it returned
    followingUsers \* the page's followingUsers state

homeVars == << statusFeed, snapshot, followingUsers >>

\* The browser's SocketClient singleton (lib/socket).
VARIABLES
    socket,            \* this.socket: the socket held, 0 for null
    reconnectAttempts, \* this.reconnectAttempts
    clientSocket,      \* per socket made by io(): none, connecting, connected, closed
    errorsSince        \* per socket: connect_error events since it was made or last connected

clientVars == << socket, reconnectAttempts, clientSocket, errorsSince >>

\* The OTP collection (one document, made by createOTP) and the verifyOTP
\* calls in flight.
VARIABLES
    otpDoc,       \* the stored document: exists, attempts, isUsed
    verifyAt,     \* per call: where it stands
    verifyCopy,   \* per call: attempts of the document it loaded
    verifyGuess   \* per call: whether the code it carries is the right one

otpVars == << otpDoc, verifyAt, verifyCopy, verifyGuess >>

\* The Conversation collection and the getOrCreateConversation requests in
\* flight.
VARIABLES
    conversations, \* the stored documents, in insertion order: participants
    gcAt,          \* per request: where it stands
    gcUsers,       \* per request: << req.user.id, req.params.userId >>
    gcConversation \* per request: index of the conversation it holds, 0 for none

conversationVars == << conversations, gcAt, gcUsers, gcConversation >>

appVars == << wireVars, storeVars, homeVars, clientVars, otpVars, conversationVars >>

vars == << mainVars, loopVars, routerVars, appVars >>

\* A user id as the handlers can see it (undefined when none was stored).
Keys == UserIds \cup {Undefined}

\* The sockets Socket.io holds as connected (io.sockets.sockets).
Connected == { c \in Conns : connState[c] = "ADMITTED" }

\* The connections of user u that were admitted and not yet disconnected.
Live(u) == { c \in Connected : socketUserId[c] = u }

\* What the parts around the socket service start with.
AppInit ==
    /\ wire = [c \in Conns |-> << >>]
    /\ received = [c \in Conns |-> << >>]
    /\ serial = 0
    /\ messageRows = {}
    /\ notificationRows = {}
    /\ reqAt = [r \in Requests |-> "idle"]
    /\ statusFeed = << >>
    /\ snapshot = [at |-> "requested", users |-> << >>]
    /\ followingUsers = << >>
    /\ socket = 0
    /\ reconnectAttempts = 0
    /\ clientSocket = [s \in ClientSockets |-> "none"]
    /\ errorsSince = [s \in ClientSockets |-> 0]
    /\ otpDoc = [exists |-> TRUE, attempts |-> 0, isUsed |-> FALSE]
    /\ verifyAt = [v \in Verifies |-> "idle"]
    /\ verifyCopy = [v \in Verifies |-> 0]
    /\ verifyGuess = [v \in Verifies |-> FALSE]
    /\ conversations = << >>
    /\ gcAt = [g \in GetOrCreates |-> "idle"]
    /\ gcUsers = [g \in GetOrCreates |-> << >>]
    /\ gcConversation = [g \in GetOrCreates |-> 0]

Init ==
    /\ io = FALSE
    /\ nextId = 1
    /\ connState = [c \in Conns |-> "NEW"]
    /\ credentialOk = [c \in Conns |-> FALSE]
    /\ socketUserId = [c \in Conns |-> Undefined]
    /\ userSockets = EmptyMap
    /\ rooms = << >>
    /\ outbox = << >>
    /\ emitted = [u \in Keys |-> [online |-> 0, offline |-> 0]]
    /\ running = 0
    /\ pc = [c \in Conns |-> "idle"]
    /\ phase = [c \in Conns |-> "PENDING"]
    /\ owner = [c \in Conns |-> "u1"]
    /\ heap = << >>
    /\ registry = EmptyMap
    /\ held = [c \in Conns |-> 0]
    /\ sawFirst = [c \in Conns |-> FALSE]
    /\ announced = [online |-> 0, offline |-> 0]
    /\ transportOpen = [c \in Conns |-> TRUE]
    /\ subscribed = [c \in Conns |-> {}]
    /\ repeated = [c \in Conns |-> FALSE]
    /\ AppInit

\* ------------------------------------------------------------------ presence
\* The mutant: the status goes to the sockets of the user's own sessions only.
broadcastUserStatusToOwnSockets(userId, isOnline, to) ==
    IF io
    THEN << [event |-> "user:status", userId |-> userId, isOnline |-> isOnline,
             to |-> { c \in to : socketUserId[c] = userId }] >>
    ELSE << >>

\* broadcastUserStatus(userId, isOnline): io.emit reaches every connected
\* socket `to` (the timestamp field is left out).
broadcastUserStatus(userId, isOnline, to) ==
    IF io
    THEN << [event |-> "user:status", userId |-> userId,
             isOnline |-> isOnline, to |-> to] >>
    ELSE << >>

\* The tally of presence events after the events `out` were emitted.
Tally(out) ==
    [u \in Keys |->
        [online |-> emitted[u].online
            + Cardinality({i \in 1..Len(out) : out[i].userId = u /\ out[i].isOnline}),
         offline |-> emitted[u].offline
            + Cardinality({i \in 1..Len(out) : out[i].userId = u /\ ~out[i].isOnline})]]

\* ------------------------------------------------------------------ registry
\* The mutant: every admit stores a new Set holding only the new socket id.
RegistryAfterConnectNewSet(m, userId, sid) ==
    MapSet(m, userId, {sid})

\* handleConnection, lines 65-69: create the user's Set if the Map has none,
\* then add the socket id to it.
RegistryAfterConnect(m, userId, sid) ==
    LET m1 == IF ~MapHas(m, userId) THEN MapSet(m, userId, {}) ELSE m
    IN  MapSet(m1, userId, MapGet(m1, userId) \cup {sid})

\* The mutant: the emptied Set is left in the Map.
RegistryAfterDisconnectKeepsEmpty(m, userId, sid) ==
    IF MapHas(m, userId)
    THEN MapSet(m, userId, MapGet(m, userId) \ {sid})
    ELSE m

\* The mutant: the user's entry is dropped on every disconnect.
RegistryAfterDisconnectDropsUser(m, userId, sid) ==
    IF MapHas(m, userId) THEN MapDelete(m, userId) ELSE m

\* handleDisconnect, lines 113-123: delete the socket id from the user's Set
\* and drop the user's entry when the Set became empty.
RegistryAfterDisconnect(m, userId, sid) ==
    IF MapHas(m, userId)
    THEN LET userSocketSet == MapGet(m, userId) \ {sid}
         IN  IF Cardinality(userSocketSet) = 0
             THEN MapDelete(m, userId)
             ELSE MapSet(m, userId, userSocketSet)
    ELSE m

\* The mutant: the admit announces the user as offline.
PresenceOnConnectOffline(m, userId, sid, to) ==
    broadcastUserStatus(userId, FALSE, to)

\* handleConnection, lines 74-75: the presence events an admit emits.
PresenceOnConnect(m, userId, sid, to) ==
    broadcastUserStatus(userId, TRUE, to)

\* The mutant: every disconnect announces the user as offline.
PresenceOnDisconnectAlways(m, userId, sid, to) ==
    broadcastUserStatus(userId, FALSE, to)

\* The mutant: a disconnect that finds no entry for the user announces the
\* user as offline too.
PresenceOnDisconnectWhenAbsent(m, userId, sid, to) ==
    IF ~MapHas(m, userId) \/ Cardinality(MapGet(m, userId) \ {sid}) = 0
    THEN broadcastUserStatus(userId, FALSE, to)
    ELSE << >>

\* handleDisconnect, lines 118-122: the presence events an evict emits.
PresenceOnDisconnect(m, userId, sid, to) ==
    IF MapHas(m, userId) /\ Cardinality(MapGet(m, userId) \ {sid}) = 0
    THEN broadcastUserStatus(userId, FALSE, to)
    ELSE << >>

\* isUserOnline(userId)
isUserOnline(userId) == MapHas(userSockets, userId)

\* getOnlineUsersCount()
getOnlineUsersCount == Len(userSockets)

\* The mutant: one id per registered socket instead of one per key.
getOnlineUserIdsPerSocket ==
    LET flat[i \in 0..Len(userSockets)] ==
            IF i = 0 THEN << >>
            ELSE flat[i - 1] \o
                 [j \in 1..Cardinality(userSockets[i].value) |-> userSockets[i].key]
    IN  flat[Len(userSockets)]

\* getOnlineUserIds()
getOnlineUserIds == MapKeys(userSockets)

\* ------------------------------------------------------------------ actions
\* initialize(httpServer)
initialize ==
    /\ ~io
    /\ io' = TRUE
    /\ outbox' = << >>
    /\ UNCHANGED << nextId, connState, credentialOk, socketUserId,
                    userSockets, rooms, emitted, loopVars, appVars, routerVars >>

\* A client opens a transport connection: Socket.io creates the socket and
\* queues the middleware registered with io.use.
Handshake ==
    /\ io
    /\ nextId <= MaxConns
    /\ connState' = [connState EXCEPT ![nextId] = "CONNECTING"]
    /\ nextId' = nextId + 1
    /\ outbox' = << >>
    /\ UNCHANGED << io, credentialOk, socketUserId, userSockets, rooms, emitted,
                    loopVars, appVars, routerVars >>

\* The credential is good: a token is present and jwt.verify accepts it.
CredentialVerifies(hs) ==
    /\ Truthy(HandshakeToken(hs))
    /\ ~verifyAccessTokenThrows(HandshakeToken(hs))

\* The middleware runs on socket c, whose handshake is hs.
Authenticate(c) ==
    /\ connState[c] = "CONNECTING"
    /\ \E hs \in Handshakes :
         LET res == authenticateSocket(hs) IN
         /\ connState' = [connState EXCEPT
                            ![c] = IF res.ok THEN "VERIFIED" ELSE "REJECTED"]
         /\ socketUserId' = [socketUserId EXCEPT ![c] = res.userId]
         /\ credentialOk' = [credentialOk EXCEPT ![c] = CredentialVerifies(hs)]
    /\ outbox' = << >>
    /\ UNCHANGED << io, nextId, userSockets, rooms, emitted, loopVars, appVars, routerVars >>

\* handleConnection(socket): Socket.io emits "connection" for a socket whose
\* middleware called next() without an error.
handleConnection(c) ==
    /\ connState[c] = "VERIFIED"
    /\ LET userId == socketUserId[c]
           out == PresenceOnConnect(userSockets, userId, c, Connected \cup {c})
       IN  /\ userSockets' = RegistryAfterConnect(userSockets, userId, c)
           /\ rooms' = Join(rooms, c, roomOfUser(userId))
           /\ outbox' = out
           /\ emitted' = Tally(out)
    /\ connState' = [connState EXCEPT ![c] = "ADMITTED"]
    /\ UNCHANGED << io, nextId, credentialOk, socketUserId, loopVars, appVars, routerVars >>

\* handleDisconnect(socket, userId, username): the transport of an admitted
\* socket closes; Socket.io takes the socket out of its rooms and of
\* io.sockets.sockets, then emits "disconnect".
handleDisconnect(c) ==
    /\ connState[c] = "ADMITTED"
    /\ LET userId == socketUserId[c]
           out == PresenceOnDisconnect(userSockets, userId, c, Connected \ {c})
       IN  /\ userSockets' = RegistryAfterDisconnect(userSockets, userId, c)
           /\ rooms' = LeaveAll(rooms, c)
           /\ outbox' = out
           /\ emitted' = Tally(out)
    /\ connState' = [connState EXCEPT ![c] = "EVICTED"]
    /\ UNCHANGED << io, nextId, credentialOk, socketUserId, loopVars, appVars, routerVars >>

Next ==
    \/ initialize
    \/ Handshake
    \/ \E c \in Conns : Authenticate(c)
    \/ \E c \in Conns : handleConnection(c)
    \/ \E c \in Conns : handleDisconnect(c)

Spec == Init /\ [][Next]_vars

\* ------------------------------------------------------------------ router
\* How many sockets take part where rooms and deliveries are checked.
MaxRouterConns == 2
RouterConns == 1..MaxRouterConns

\* The post ids clients name in post:join / post:leave and the conversation
\* ids callers name.
PostIds == {"p1"}
ConversationIds == {"k1"}

\* The mutant: the post id is used as the room name as it comes.
roomOfPostUnprefixed(postId) == postId

\* `post:${postId}` and `conversation:${conversationId}`
roomOfPost(postId) == "post:" \o postId
roomOfConversation(conversationId) == "conversation:" \o conversationId

\* The mutant: leaving a room the socket is not in closes the room.
LeaveClosesRoom(r, sid, room) ==
    IF room \in DOMAIN r
    THEN IF sid \in r[room]
         THEN [x \in { y \in DOMAIN r : y # room \/ r[y] # {sid} } |->
                 IF x = room THEN r[x] \ {sid} ELSE r[x]]
         ELSE [x \in DOMAIN r \ {room} |-> r[x]]
    ELSE r

\* socket.leave(room)
Leave(r, sid, room) ==
    IF room \in DOMAIN r
    THEN [x \in { y \in DOMAIN r : y # room \/ r[y] # {sid} } |->
            IF x = room THEN r[x] \ {sid} ELSE r[x]]
    ELSE r

\* The sockets in a room (none when the room does not exist).
RoomMembers(r, room) == IF room \in DOMAIN r THEN r[room] ELSE {}

\* The mutant: the sockets are written one after the other and the first
\* write that fails throws, ending the loop.
EmitToRoomStopsAtFailure(r, room, event) ==
    LET to == RoomMembers(r, room) IN
    [event |-> event, room |-> room, to |-> to,
     pushed |-> { c \in to : \A d \in to : d <= c => transportOpen[d] },
     threw |-> \E d \in to : ~transportOpen[d]]

\* The mutant: the event goes to every connected socket (io.emit).
EmitToRoomEveryone(r, room, event) ==
    [event |-> event, room |-> room, to |-> Connected,
     pushed |-> { c \in Connected : transportOpen[c] },
     threw |-> FALSE]

\* The mutant: an event for a room without members goes to every connected
\* socket instead.
EmitToRoomFallsBackToAll(r, room, event) ==
    LET to == IF RoomMembers(r, room) = {} THEN Connected
              ELSE RoomMembers(r, room) IN
    [event |-> event, room |-> room, to |-> to,
     pushed |-> { c \in to : transportOpen[c] },
     threw |-> FALSE]

\* this.io.to(room).emit(event, data): the adapter resolves the room to its
\* members `to` and writes the packet to each; a write to a socket whose
\* transport has closed is dropped, and nothing is thrown to the caller.
EmitToRoom(r, room, event) ==
    LET to == RoomMembers(r, room) IN
    [event |-> event, room |-> room, to |-> to,
     pushed |-> { c \in to : transportOpen[c] },
     threw |-> FALSE]

\* The mutant: a socket the write failed for is taken out of the room.
DeliverEvictsFailed(room, event) ==
    LET res == EmitToRoom(rooms, room, event)
        failed == res.to \ res.pushed
    IN  /\ outbox' = IF io THEN << res >> ELSE << >>
        /\ rooms' = IF io /\ failed # {}
                    THEN [x \in { y \in DOMAIN rooms : ~(rooms[y] \subseteq failed) } |->
                            rooms[x] \ failed]
                    ELSE rooms
        /\ UNCHANGED << io, nextId, connState, credentialOk, socketUserId,
                        userSockets, emitted, loopVars, appVars, routerVars >>

\* if (this.io) { this.io.to(room).emit(event, ...) }
Deliver(room, event) ==
    /\ outbox' = IF io THEN << EmitToRoom(rooms, room, event) >> ELSE << >>
    /\ UNCHANGED << io, nextId, connState, credentialOk, socketUserId,
                    userSockets, rooms, emitted, loopVars, appVars, routerVars >>

\* sendNotificationToUser(userId, notification)
sendNotificationToUser(userId) == Deliver(roomOfUser(userId), "notification")

\* sendMessageToUser(userId, message)
sendMessageToUser(userId) == Deliver(roomOfUser(userId), "message:new")

\* sendMessageReadNotification(userId, conversationId, readBy)
sendMessageReadNotification(userId) ==
    Deliver(roomOfUser(userId), "message:read")

\* emitPostUpdate(postId, event, data)
emitPostUpdate(postId) == Deliver(roomOfPost(postId), "post:update")

\* emitTyping(conversationId, userId, username, isTyping)
emitTyping(conversationId) ==
    Deliver(roomOfConversation(conversationId), "conversation:typing")

\* What a room call leaves alone.
RoomCallFrame ==
    /\ outbox' = << >>
    /\ UNCHANGED << io, nextId, connState, credentialOk, socketUserId,
                    userSockets, emitted, loopVars, appVars, transportOpen, repeated >>

\* socket.on("post:join", ...): a message of the admitted socket c.
postJoin(c, postId) ==
    /\ connState[c] = "ADMITTED" /\ transportOpen[c]
    /\ rooms' = Join(rooms, c, roomOfPost(postId))
    /\ subscribed' = [subscribed EXCEPT ![c] = @ \cup {roomOfPost(postId)}]
    /\ RoomCallFrame

\* The mutant: the socket is noted as unsubscribed but stays in the room.
postLeaveStaysMember(c, postId) ==
    /\ connState[c] = "ADMITTED" /\ transportOpen[c]
    /\ rooms' = rooms
    /\ subscribed' = [subscribed EXCEPT ![c] = @ \ {roomOfPost(postId)}]
    /\ RoomCallFrame

\* socket.on("post:leave", ...)
postLeave(c, postId) ==
    /\ connState[c] = "ADMITTED" /\ transportOpen[c]
    /\ rooms' = Leave(rooms, c, roomOfPost(postId))
    /\ subscribed' = [subscribed EXCEPT ![c] = @ \ {roomOfPost(postId)}]
    /\ RoomCallFrame

\* The mutant: the socket id is put in the room without looking the socket up.
joinConversationNoLookup(socketId, conversationId) ==
    /\ rooms' = Join(rooms, socketId, roomOfConversation(conversationId))
    /\ subscribed' = [subscribed EXCEPT
                        ![socketId] = @ \cup {roomOfConversation(conversationId)}]
    /\ RoomCallFrame

\* joinConversation(socketId, conversationId): the socket is looked up in
\* io.sockets.sockets, which holds the connected sockets only.
joinConversation(socketId, conversationId) ==
    /\ IF io /\ socketId \in Connected
       THEN /\ rooms' = Join(rooms, socketId, roomOfConversation(conversationId))
            /\ subscribed' = [subscribed EXCEPT
                    ![socketId] = @ \cup {roomOfConversation(conversationId)}]
       ELSE UNCHANGED << rooms, subscribed >>
    /\ RoomCallFrame

\* The transport of an admitted socket breaks (the peer is gone); Socket.io
\* notices later and only then emits "disconnect".
TransportFails(c) ==
    /\ connState[c] = "ADMITTED" /\ transportOpen[c]
    /\ transportOpen' = [transportOpen EXCEPT ![c] = FALSE]
    /\ outbox' = << >>
    /\ UNCHANGED << io, nextId, connState, credentialOk, socketUserId,
                    userSockets, rooms, emitted, loopVars, appVars, subscribed,
                    repeated >>

\* handleDisconnect called again for a socket that was evicted before (a
\* second "disconnect" for the same connection). Socket.io emits the event
\* once per socket; this is the handler run on a socket id the registry no
\* longer holds.
handleDisconnectAgain(c) ==
    /\ connState[c] = "EVICTED"
    /\ LET userId == socketUserId[c]
           out == PresenceOnDisconnect(userSockets, userId, c, Connected)
       IN  /\ userSockets' = RegistryAfterDisconnect(userSockets, userId, c)
           /\ outbox' = out
           /\ emitted' = Tally(out)
    /\ repeated' = [repeated EXCEPT ![c] = TRUE]
    /\ UNCHANGED << io, nextId, connState, credentialOk, socketUserId, rooms,
                    loopVars, appVars, transportOpen, subscribed >>

\* The connection lifecycle with the calls that name a socket by its id.
NextLifecycle ==
    \/ Next
    \/ \E c \in Conns, k \in ConversationIds : joinConversation(c, k)

SpecLifecycle == Init /\ [][NextLifecycle]_vars

\* The server is initialized and the sockets of `waiting` have passed the
\* middleware, each for some user, and wait for their "connection" events;
\* no other socket arrives.
VerifiedInit(waiting) ==
    /\ io = TRUE
    /\ nextId = MaxConns + 1
    /\ connState = [c \in Conns |-> IF c \in waiting THEN "VERIFIED" ELSE "NEW"]
    /\ credentialOk = [c \in Conns |-> c \in waiting]
    /\ \E users \in [waiting -> UserIds] :
         socketUserId = [c \in Conns |->
                            IF c \in waiting THEN users[c] ELSE Undefined]
    /\ userSockets = EmptyMap
    /\ rooms = << >>
    /\ outbox = << >>
    /\ emitted = [u \in Keys |-> [online |-> 0, offline |-> 0]]
    /\ running = 0
    /\ pc = [c \in Conns |-> "idle"]
    /\ phase = [c \in Conns |-> "PENDING"]
    /\ owner = [c \in Conns |-> "u1"]
    /\ heap = << >>
    /\ registry = EmptyMap
    /\ held = [c \in Conns |-> 0]
    /\ sawFirst = [c \in Conns |-> FALSE]
    /\ announced = [online |-> 0, offline |-> 0]
    /\ transportOpen = [c \in Conns |-> TRUE]
    /\ subscribed = [c \in Conns |-> {}]
    /\ repeated = [c \in Conns |-> FALSE]
    /\ AppInit

RouterInit == VerifiedInit(RouterConns)

\* Admits and evicts together with the room calls and the room deliveries.
NextRooms ==
    \/ \E c \in Conns : handleConnection(c)
    \/ \E c \in Conns : handleDisconnect(c)
    \/ \E c \in Conns, p \in PostIds : postJoin(c, p)
    \/ \E c \in Conns, p \in PostIds : postLeave(c, p)
    \/ \E c \in Conns, k \in ConversationIds : joinConversation(c, k)
    \/ \E p \in PostIds : emitPostUpdate(p)
    \/ \E k \in ConversationIds : emitTyping(k)

SpecRooms == RouterInit /\ [][NextRooms]_vars

\* Admits and evicts together with the deliveries to users and the transport.
NextDeliver ==
    \/ \E c \in Conns : handleConnection(c)
    \/ \E c \in Conns : handleDisconnect(c)
    \/ \E u \in UserIds : sendNotificationToUser(u)
    \/ \E u \in UserIds : sendMessageToUser(u)
    \/ \E u \in UserIds : sendMessageReadNotification(u)
    \/ \E c \in Conns : TransportFails(c)
    \/ \E c \in Conns : handleDisconnectAgain(c)

SpecDeliver == RouterInit /\ [][NextDeliver]_vars

\* A reconnect storm: the waiting sockets connect, join rooms and disconnect.
\* The transport closes every connection it opened sooner or later, and
\* Socket.io then emits its "disconnect": handleDisconnect(c), enabled from
\* the admit of c on, is not put off for ever.
NextStorm ==
    \/ \E c \in Conns : handleConnection(c)
    \/ \E c \in Conns : handleDisconnect(c)
    \/ \E c \in Conns, p \in PostIds : postJoin(c, p)
    \/ \E c \in Conns, k \in ConversationIds : joinConversation(c, k)

StormFairness == \A c \in Conns : WF_vars(handleDisconnect(c))

StormInit == VerifiedInit(RouterConns)

SpecStorm == StormInit /\ [][NextStorm]_vars /\ StormFairness

\* ------------------------------------------------------------------ event loop
\* handleConnection and handleDisconnect are synchronous functions called
\* from Node's event loop: a handler that has started runs to its end before
\* another handler starts. Here each handler is cut at its statements and the
\* event loop is the guard MayRun.

\* The mutant: a handler can be suspended between two statements, as it could
\* if it awaited there.
MayRunAnyTime(c) == TRUE

\* The event loop lets socket c's handler take a step.
MayRun(c) == running = 0 \/ running = c

\* All sockets have passed the middleware and their "connection" events are
\* queued together; each belongs to some user.
LoopInit ==
    /\ io = TRUE
    /\ nextId = 1
    /\ connState = [c \in Conns |-> "NEW"]
    /\ credentialOk = [c \in Conns |-> FALSE]
    /\ socketUserId = [c \in Conns |-> Undefined]
    /\ userSockets = EmptyMap
    /\ rooms = << >>
    /\ outbox = << >>
    /\ emitted = [u \in Keys |-> [online |-> 0, offline |-> 0]]
    /\ running = 0
    /\ pc = [c \in Conns |-> "idle"]
    /\ phase = [c \in Conns |-> "PENDING"]
    /\ owner \in [Conns -> UserIds]
    /\ heap = << >>
    /\ registry = EmptyMap
    /\ held = [c \in Conns |-> 0]
    /\ sawFirst = [c \in Conns |-> FALSE]
    /\ announced = [online |-> 0, offline |-> 0]
    /\ transportOpen = [c \in Conns |-> TRUE]
    /\ subscribed = [c \in Conns |-> {}]
    /\ repeated = [c \in Conns |-> FALSE]
    /\ AppInit

\* handleConnection, line 66: if (!this.userSockets.has(userId))
hcCheck(c) ==
    /\ phase[c] = "PENDING" /\ pc[c] = "idle"
    /\ MayRun(c)
    /\ running' = c
    /\ phase' = [phase EXCEPT ![c] = "ADMITTING"]
    /\ sawFirst' = [sawFirst EXCEPT ![c] = ~MapHas(registry, owner[c])]
    /\ pc' = [pc EXCEPT ![c] =
                IF MapHas(registry, owner[c]) THEN "hc_add" ELSE "hc_create"]
    /\ UNCHANGED << mainVars, routerVars, appVars, owner, heap, registry, held, announced >>

\* handleConnection, line 67: this.userSockets.set(userId, new Set())
hcCreate(c) ==
    /\ pc[c] = "hc_create"
    /\ MayRun(c)
    /\ heap' = Append(heap, {})
    /\ registry' = MapSet(registry, owner[c], Len(heap) + 1)
    /\ pc' = [pc EXCEPT ![c] = "hc_add"]
    /\ UNCHANGED << mainVars, routerVars, appVars, running, phase, owner, held, sawFirst, announced >>

\* handleConnection, lines 69-75: this.userSockets.get(userId)!.add(socket.id),
\* then the room join and the broadcast. A get that finds no entry returns
\* undefined and the add throws: the handler ends with the socket connected
\* and unregistered.
hcAdd(c) ==
    /\ pc[c] = "hc_add"
    /\ MayRun(c)
    /\ IF MapHas(registry, owner[c])
       THEN /\ heap' = [heap EXCEPT ![MapGet(registry, owner[c])] = @ \cup {c}]
            /\ announced' = [announced EXCEPT !.online = @ + 1]
       ELSE UNCHANGED << heap, announced >>
    /\ phase' = [phase EXCEPT ![c] = "LIVE"]
    /\ pc' = [pc EXCEPT ![c] = "idle"]
    /\ running' = 0
    /\ UNCHANGED << mainVars, routerVars, appVars, owner, registry, held, sawFirst >>

\* handleDisconnect, lines 114-115: const userSocketSet = this.userSockets
\* .get(userId); if (userSocketSet)
hdGet(c) ==
    /\ phase[c] = "LIVE" /\ pc[c] = "idle"
    /\ MayRun(c)
    /\ IF MapHas(registry, owner[c])
       THEN /\ held' = [held EXCEPT ![c] = MapGet(registry, owner[c])]
            /\ phase' = [phase EXCEPT ![c] = "CLOSING"]
            /\ pc' = [pc EXCEPT ![c] = "hd_delete"]
            /\ running' = c
       ELSE /\ phase' = [phase EXCEPT ![c] = "GONE"]
            /\ running' = 0
            /\ UNCHANGED << held, pc >>
    /\ UNCHANGED << mainVars, routerVars, appVars, owner, heap, registry, sawFirst, announced >>

\* handleDisconnect, line 116: userSocketSet.delete(socket.id)
hdDelete(c) ==
    /\ pc[c] = "hd_delete"
    /\ MayRun(c)
    /\ heap' = [heap EXCEPT ![held[c]] = @ \ {c}]
    /\ pc' = [pc EXCEPT ![c] = "hd_size"]
    /\ UNCHANGED << mainVars, routerVars, appVars, running, phase, owner, registry, held, sawFirst,
                    announced >>

\* handleDisconnect, line 119: if (userSocketSet.size === 0)
hdSize(c) ==
    /\ pc[c] = "hd_size"
    /\ MayRun(c)
    /\ IF Cardinality(heap[held[c]]) = 0
       THEN /\ pc' = [pc EXCEPT ![c] = "hd_drop"]
            /\ UNCHANGED << running, phase, held >>
       ELSE /\ pc' = [pc EXCEPT ![c] = "idle"]
            /\ phase' = [phase EXCEPT ![c] = "GONE"]
            /\ held' = [held EXCEPT ![c] = 0]
            /\ running' = 0
    /\ UNCHANGED << mainVars, routerVars, appVars, owner, heap, registry, sawFirst, announced >>

\* handleDisconnect, lines 120-121: this.userSockets.delete(userId) and the
\* offline broadcast.
hdDrop(c) ==
    /\ pc[c] = "hd_drop"
    /\ MayRun(c)
    /\ registry' = MapDelete(registry, owner[c])
    /\ announced' = [announced EXCEPT !.offline = @ + 1]
    /\ pc' = [pc EXCEPT ![c] = "idle"]
    /\ phase' = [phase EXCEPT ![c] = "GONE"]
    /\ held' = [held EXCEPT ![c] = 0]
    /\ running' = 0
    /\ UNCHANGED << mainVars, routerVars, appVars, owner, heap, sawFirst >>

LoopNext ==
    \/ \E c \in Conns : hcCheck(c)
    \/ \E c \in Conns : hcCreate(c)
    \/ \E c \in Conns : hcAdd(c)
    \/ \E c \in Conns : hdGet(c)
    \/ \E c \in Conns : hdDelete(c)
    \/ \E c \in Conns : hdSize(c)
    \/ \E c \in Conns : hdDrop(c)

SpecLoop == LoopInit /\ [][LoopNext]_vars

\* ------------------------------------------------------------------ claims
\* Ghost views of the transport's lifecycle, used to state the claims.
AdmittedEver(u) ==
    { c \in Conns : connState[c] \in {"ADMITTED", "EVICTED"} /\ socketUserId[c] = u }
Evicted(u) == { c \in Conns : connState[c] = "EVICTED" /\ socketUserId[c] = u }

\* The step admits socket c / evicts socket c.
Admits(c) == connState[c] = "VERIFIED" /\ connState'[c] = "ADMITTED"
Evicts(c) == connState[c] = "ADMITTED" /\ connState'[c] = "EVICTED"

\* The socket ids the registry holds.
Registered == UNION { userSockets[i].value : i \in 1..Len(userSockets) }
\* The socket ids that are members of some room.
InRooms == UNION { rooms[r] : r \in DOMAIN rooms }

\* C1: a user who has opened N >= 1 connections and closed none has caused
\* exactly one online presence broadcast.
C1_OneOnlineBroadcastPerSession ==
    \A u \in UserIds :
        (AdmittedEver(u) # {} /\ Evicted(u) = {}) => emitted[u].online = 1

\* C2: a user id is a key of userSockets iff the user has a live connection,
\* and no key maps to an empty Set.
C2_KeyIffLive ==
    /\ \A u \in Keys : MapHas(userSockets, u) <=> Live(u) # {}
    /\ \A i \in 1..Len(userSockets) : userSockets[i].value # {}

C2_Witness ==
    \E u \in UserIds :
        /\ MapHas(userSockets, u)
        /\ \E v \in UserIds : v # u /\ Evicted(v) # {} /\ ~MapHas(userSockets, v)

\* C3: isUserOnline(u) is true exactly when the number of u's admits minus
\* the number of u's evicts is positive, and the user's Set has that size.
C3_OnlineIsNetCount ==
    \A u \in UserIds :
        LET net == Cardinality(AdmittedEver(u)) - Cardinality(Evicted(u)) IN
        /\ isUserOnline(u) <=> net > 0
        /\ isUserOnline(u) => Cardinality(MapGet(userSockets, u)) = net

C3_Witness ==
    \E u \in UserIds :
        /\ Cardinality(AdmittedEver(u)) >= 2
        /\ Cardinality(Evicted(u)) = 1
        /\ isUserOnline(u)

\* C4: admitting a connection of a user with no live connection emits
\* exactly one presence event, for that user, with isOnline = TRUE.
C4_FirstAdmitEmitsOnline ==
    [][ \A c \in Conns :
          (Admits(c) /\ Live(socketUserId[c]) = {}) =>
              /\ Len(outbox') = 1
              /\ outbox'[1].userId = socketUserId[c]
              /\ outbox'[1].isOnline = TRUE
              /\ emitted'[socketUserId[c]].online
                    = emitted[socketUserId[c]].online + 1
              /\ emitted'[socketUserId[c]].offline
                    = emitted[socketUserId[c]].offline ]_vars

C4_Witness ==
    \E u \in UserIds :
        /\ Cardinality(AdmittedEver(u)) = 1
        /\ Cardinality(Live(u)) = 1
        /\ Len(outbox) = 1 /\ outbox[1].userId = u /\ outbox[1].isOnline
        /\ emitted[u].online = 1

\* C5: evicting the last live connection of a user emits exactly one event
\* with isOnline = FALSE and removes the user from the registry; offline
\* events are counted on such steps only, so evicting all k connections of a
\* user emits one offline event in total.
C5_LastEvictEmitsOffline ==
    [][ /\ \A c \in Conns :
             (Evicts(c) /\ Live(socketUserId[c]) = {c}) =>
                 /\ Len(outbox') = 1
                 /\ outbox'[1].userId = socketUserId[c]
                 /\ outbox'[1].isOnline = FALSE
                 /\ ~MapHas(userSockets', socketUserId[c])
                 /\ emitted'[socketUserId[c]].offline
                       = emitted[socketUserId[c]].offline + 1
        /\ \A u \in UserIds :
             emitted'[u].offline # emitted[u].offline =>
                 \E c \in Conns : Evicts(c) /\ Live(u) = {c} ]_vars

C5_Witness ==
    \E u \in UserIds :
        /\ Cardinality(Evicted(u)) >= 2
        /\ Live(u) = {}
        /\ emitted[u].offline = 1
        /\ Len(outbox) = 1 /\ outbox[1].userId = u /\ ~outbox[1].isOnline
        /\ ~isUserOnline(u)

\* C6: evicting a connection that is not the user's last live connection
\* emits no presence event and leaves isUserOnline(userId) true.
C6_NonLastEvictIsSilent ==
    [][ \A c \in Conns :
          (Evicts(c) /\ Live(socketUserId[c]) \ {c} # {}) =>
              /\ outbox' = << >>
              /\ emitted' = emitted
              /\ MapHas(userSockets', socketUserId[c]) ]_vars

C6_Witness ==
    \E u \in UserIds :
        /\ Evicted(u) # {}
        /\ Live(u) # {}
        /\ emitted[u].offline = 0
        /\ outbox = << >>
        /\ isUserOnline(u)

\* C7: for each user, online events minus offline events is 1 if the user is
\* online and 0 otherwise.
C7_OnlineMinusOfflineIsPresence ==
    \A u \in UserIds :
        emitted[u].online - emitted[u].offline
            = IF isUserOnline(u) THEN 1 ELSE 0

\* C8: getOnlineUserIds() lists exactly the users with a connection admitted
\* and not evicted, each once.
C8_OnlineUserIdsExact ==
    LET ids == getOnlineUserIds IN
    /\ { ids[i] : i \in 1..Len(ids) } = { u \in Keys : Live(u) # {} }
    /\ \A i, j \in 1..Len(ids) : ids[i] = ids[j] => i = j

C8_Witness ==
    \E u, v \in UserIds :
        /\ u # v
        /\ Cardinality(Live(u)) >= 2
        /\ Evicted(v) # {} /\ Live(v) = {}
        /\ getOnlineUserIds = << u >>

\* No handler is part-way through.
Quiescent == \A c \in Conns : pc[c] = "idle"

\* The members of the Set the registry holds for user u (none without entry).
RegistrySet(u) ==
    IF MapHas(registry, u) THEN heap[MapGet(registry, u)] ELSE {}

\* C9: whatever the order in which the queued connect and disconnect
\* handlers of a user run, once they have run the registry holds exactly the
\* connected sockets of each user (none lost, none stranded, no empty entry),
\* and no two sockets of a user that are both still connecting or connected
\* have both found the user without an entry.
C9_HandlersAtomicPerUser ==
    /\ Quiescent =>
         /\ \A u \in UserIds :
                RegistrySet(u) = { c \in Conns : phase[c] = "LIVE" /\ owner[c] = u }
         /\ \A i \in 1..Len(registry) : heap[registry[i].value] # {}
    /\ \A c, d \in Conns :
         ( /\ c # d /\ owner[c] = owner[d]
           /\ phase[c] \in {"ADMITTING", "LIVE"}
           /\ phase[d] \in {"ADMITTING", "LIVE"} )
             => ~(sawFirst[c] /\ sawFirst[d])

C9_Witness ==
    /\ Quiescent
    /\ \E c, d, e \in Conns :
         /\ owner[c] = owner[d] /\ owner[d] = owner[e]
         /\ c # d
         /\ phase[c] = "LIVE" /\ sawFirst[c]
         /\ phase[d] = "LIVE" /\ ~sawFirst[d]
         /\ phase[e] = "GONE" /\ sawFirst[e]
         /\ RegistrySet(owner[c]) = {c, d}

\* C10: a socket is in the registry or in a room, and a user is reported
\* online or announced, only on the strength of a socket whose credential
\* verified; a socket whose verification is pending or failed is in neither.
C10_OnlyVerifiedAdmitted ==
    /\ \A c \in Registered \cup InRooms \cup Connected :
            credentialOk[c] /\ socketUserId[c] \in UserIds
    /\ \A c \in Conns :
            connState[c] \in {"NEW", "CONNECTING", "REJECTED"} =>
                c \notin Registered \cup InRooms
    /\ \A k \in Keys :
            (isUserOnline(k) \/ emitted[k].online > 0) =>
                \E c \in AdmittedEver(k) : credentialOk[c]

C10_Witness ==
    \E c, d, e \in Conns :
        /\ connState[c] = "REJECTED" /\ ~credentialOk[c]
        /\ connState[d] = "CONNECTING"
        /\ connState[e] = "ADMITTED" /\ e \in Registered /\ e \in InRooms

\* The lifecycle stage of a connection id: a socket whose middleware has run
\* and whose "connection" event is still queued counts as connecting.
Stage(c) ==
    CASE connState[c] = "NEW" -> "NONE"
      [] connState[c] \in {"CONNECTING", "VERIFIED"} -> "CONNECTING"
      [] OTHER -> connState[c]

LifecycleEdges ==
    { << "NONE", "CONNECTING" >>, << "CONNECTING", "REJECTED" >>,
      << "CONNECTING", "ADMITTED" >>, << "ADMITTED", "EVICTED" >> }

\* C11: a connection id moves only from CONNECTING to REJECTED or ADMITTED
\* and from ADMITTED to EVICTED; a rejected or evicted id is in neither the
\* registry nor any room, whatever is called with it afterwards; and the id a
\* new transport connection gets was never used before.
C11_LifecycleIsOneWay ==
    [][ /\ \A c \in Conns :
             /\ Stage(c)' # Stage(c) => << Stage(c), Stage(c)' >> \in LifecycleEdges
             /\ connState'[c] \in {"REJECTED", "EVICTED"} =>
                    c \notin Registered' \cup InRooms'
        /\ \A c \in Conns :
             (Stage(c) = "NONE" /\ Stage(c)' = "CONNECTING") =>
                 /\ c = nextId
                 /\ \A d \in Conns : Stage(d) # "NONE" => d < c ]_vars

C11_Witness ==
    \E c, d \in Conns :
        /\ c < d /\ socketUserId[c] = socketUserId[d]
        /\ connState[c] = "EVICTED" /\ c \notin Registered \cup InRooms
        /\ connState[d] = "ADMITTED" /\ d \in Registered
        /\ roomOfConversation("k1") \in DOMAIN rooms
        /\ rooms[roomOfConversation("k1")] = {d}

\* The rooms socket c was put in since it connected: its user room and the
\* post and conversation rooms it was joined to.
JoinedEver(c) == {roomOfUser(socketUserId[c])} \cup subscribed[c]

\* C12: a socket that was disconnected is a member of no room: not of its
\* user room, not of a post or conversation room it had joined, not of any
\* other; every member of a room is a connected socket.
C12_EvictedInNoRoom ==
    /\ \A c \in Conns :
         connState[c] = "EVICTED" =>
             /\ \A room \in JoinedEver(c) : c \notin RoomMembers(rooms, room)
             /\ c \notin InRooms
    /\ InRooms \subseteq Connected

C12_Witness ==
    \E c, d \in Conns :
        /\ connState[c] = "EVICTED" /\ connState[d] = "ADMITTED"
        /\ socketUserId[c] = socketUserId[d]
        /\ { roomOfPost("p1"), roomOfConversation("k1") } \subseteq subscribed[c]
        /\ \A room \in JoinedEver(c) : RoomMembers(rooms, room) = {d}

\* C13: handleDisconnect run for a socket id the registry does not hold (a
\* second "disconnect" of an evicted socket) changes nothing in the registry
\* or the rooms and emits no presence event, whether the user has other live
\* connections or none.
C13_RepeatedDisconnectIsNoOp ==
    [][ \A c \in Conns :
          (c \notin Registered /\ handleDisconnectAgain(c)) =>
              /\ userSockets' = userSockets
              /\ rooms' = rooms
              /\ outbox' = << >>
              /\ emitted' = emitted ]_vars

C13_Witness ==
    \E c \in Conns :
        LET u == socketUserId[c] IN
        /\ connState[c] = "EVICTED" /\ repeated[c]
        /\ Live(u) # {}
        /\ isUserOnline(u) /\ MapGet(userSockets, u) = Live(u)
        /\ emitted[u].offline = 0
        /\ outbox = << >>

\* The step is a delivery to user u by one of the three user-targeted calls.
DeliversToUser(u) ==
    \/ sendNotificationToUser(u)
    \/ sendMessageToUser(u)
    \/ sendMessageReadNotification(u)

UserEvents == {"notification", "message:new", "message:read"}

\* C14: a delivery to user u resolves to exactly the connections live for u,
\* writes the event to those of them whose transport is open, and reaches no
\* connection of another user.
C14_UserDeliveryReachesLive ==
    [][ \A u \in UserIds :
          (io /\ DeliversToUser(u)) =>
              /\ Len(outbox') = 1
              /\ outbox'[1].event \in UserEvents
              /\ outbox'[1].to = Live(u)
              /\ outbox'[1].pushed = { c \in Live(u) : transportOpen[c] }
              /\ \A c \in Conns :
                    socketUserId[c] # u => c \notin outbox'[1].pushed ]_vars

C14_Witness ==
    \E u, v \in UserIds :
        /\ u # v /\ Live(u) # {} /\ Live(v) # {}
        /\ Len(outbox) = 1
        /\ outbox[1].event = "message:new"
        /\ outbox[1].room = roomOfUser(u)
        /\ outbox[1].pushed = Live(u)

\* C15: a delivery to a user without a live connection throws nothing,
\* writes to no socket, and leaves the registry and the rooms as they were.
C15_OfflineDeliveryIsSilent ==
    [][ \A u \in UserIds :
          (io /\ Live(u) = {} /\ DeliversToUser(u)) =>
              /\ Len(outbox') = 1
              /\ ~outbox'[1].threw
              /\ outbox'[1].to = {}
              /\ outbox'[1].pushed = {}
              /\ userSockets' = userSockets
              /\ rooms' = rooms ]_vars

C15_Witness ==
    \E u, v \in UserIds :
        /\ Evicted(u) # {} /\ Live(u) = {} /\ ~isUserOnline(u)
        /\ Live(v) # {}
        /\ Len(outbox) = 1
        /\ outbox[1].event = "notification"
        /\ outbox[1].room = roomOfUser(u)
        /\ outbox[1].pushed = {} /\ ~outbox[1].threw

RoomNames ==
    { roomOfUser(u) : u \in UserIds } \cup { roomOfPost(p) : p \in PostIds }
        \cup { roomOfConversation(k) : k \in ConversationIds }

Subscribers(room) == { c \in Connected : room \in subscribed[c] }

\* C18: a delivery to a post room or a conversation room resolves to exactly
\* the connected sockets that joined the room and have not left it: a socket
\* that joined is reached, one that left (or never joined) is not.
C18_RoomDeliveryIffMember ==
    [][ /\ \A p \in PostIds :
             (io /\ emitPostUpdate(p)) =>
                 /\ outbox'[1].to = Subscribers(roomOfPost(p))
                 /\ outbox'[1].pushed = outbox'[1].to
        /\ \A k \in ConversationIds :
             (io /\ emitTyping(k)) =>
                 /\ outbox'[1].to = Subscribers(roomOfConversation(k))
                 /\ outbox'[1].pushed = outbox'[1].to ]_vars

C18_Witness ==
    \E c, d \in Conns :
        /\ connState[c] = "ADMITTED" /\ connState[d] = "ADMITTED"
        /\ roomOfPost("p1") \in subscribed[c]
        /\ roomOfPost("p1") \notin subscribed[d]
        /\ roomOfConversation("k1") \in subscribed[d]
        /\ Len(outbox) = 1
        /\ outbox[1].event = "post:update"
        /\ outbox[1].pushed = {c}

\* The registry as sets, and the room table, that the connected sockets alone
\* determine: what admits and evicts leave behind when nothing else touches
\* them.
RegistryOf(conn) ==
    [u \in UserIds |-> { c \in conn : socketUserId[c] = u }]

UserRoomsOf(conn) ==
    [room \in { roomOfUser(socketUserId[c]) : c \in conn } |->
        { c \in conn : roomOfUser(socketUserId[c]) = room }]

\* C19: however deliveries, broken transports and disconnects interleave, a
\* delivery throws nothing and writes only to resolved sockets whose
\* transport is open, and the registry and the rooms are those of the
\* connected sockets: a socket whose transport broke before the write is
\* still registered until its disconnect is handled, and is gone after it,
\* whether the delivery came before or after.
C19_DisconnectAroundDelivery ==
    /\ \A u \in UserIds :
         (IF MapHas(userSockets, u) THEN MapGet(userSockets, u) ELSE {})
             = RegistryOf(Connected)[u]
    /\ rooms = UserRoomsOf(Connected)
    /\ (Len(outbox) = 1 /\ outbox[1].event \in UserEvents) =>
         /\ ~outbox[1].threw
         /\ outbox[1].to = RoomMembers(rooms, outbox[1].room)
         /\ outbox[1].pushed = { c \in outbox[1].to : transportOpen[c] }

C19_Witness ==
    \E c, d \in Conns :
        /\ connState[d] = "EVICTED" /\ ~transportOpen[d]
        /\ connState[c] = "ADMITTED" /\ ~transportOpen[c]
        /\ Len(outbox) = 1
        /\ outbox[1].event = "message:read"
        /\ outbox[1].to = {c} /\ outbox[1].pushed = {}
        /\ c \in Registered /\ c \in InRooms

\* Nothing is left of any connection: no registry entry, no room.
NoResidue ==
    /\ getOnlineUsersCount = 0
    /\ Registered = {}
    /\ DOMAIN rooms = {}

\* C20: when every admitted connection is disconnected sooner or later, then
\* from some point on no socket is connected, the registry is empty and no
\* room exists, however the connects, room joins and disconnects of the
\* storm interleave.
C20_StormLeavesNoResidue == <>[](Connected = {} /\ NoResidue)

C20_Witness ==
    /\ \A c \in RouterConns : connState[c] = "EVICTED"
    /\ \E c, d \in Conns :
         /\ c # d /\ socketUserId[c] = socketUserId[d]
         /\ roomOfPost("p1") \in subscribed[c]
         /\ roomOfConversation("k1") \in subscribed[d]
    /\ \E u \in UserIds : emitted[u].online >= 2
    /\ NoResidue

\* ------------------------------------------------------------------ transport order
\* How many delivery calls are followed down to the transport.
MaxSends == 2

\* The mutant: a new packet is put in front of the packets already waiting.
WriteToWireInFront(res, n) ==
    [c \in Conns |->
        IF c \in res.pushed
        THEN << [event |-> res.event, serial |-> n] >> \o wire[c]
        ELSE wire[c]]

\* The adapter writes the packet of delivery call n to each socket it pushes
\* to: the packet joins the end of what the socket's transport is carrying.
WriteToWire(res, n) ==
    [c \in Conns |->
        IF c \in res.pushed
        THEN Append(wire[c], [event |-> res.event, serial |-> n])
        ELSE wire[c]]

\* sendMessageToUser(userId, message), followed down to the transports of the
\* sockets it writes to.
sendMessageToUserOnWire(userId) ==
    /\ io
    /\ serial < MaxSends
    /\ serial' = serial + 1
    /\ LET res == EmitToRoom(rooms, roomOfUser(userId), "message:new") IN
       /\ outbox' = << res >>
       /\ wire' = WriteToWire(res, serial + 1)
    /\ UNCHANGED << io, nextId, connState, credentialOk, socketUserId,
                    userSockets, rooms, emitted, loopVars, routerVars, received,
                    storeVars, homeVars, clientVars, otpVars, conversationVars >>

\* The transport of socket c (one WebSocket or polling session, a byte stream
\* in order) hands the oldest packet it carries to the client.
Arrive(c) ==
    /\ connState[c] = "ADMITTED" /\ transportOpen[c]
    /\ wire[c] # << >>
    /\ received' = [received EXCEPT ![c] = Append(@, Head(wire[c]))]
    /\ wire' = [wire EXCEPT ![c] = Tail(@)]
    /\ outbox' = << >>
    /\ UNCHANGED << io, nextId, connState, credentialOk, socketUserId,
                    userSockets, rooms, emitted, loopVars, routerVars, serial,
                    storeVars, homeVars, clientVars, otpVars, conversationVars >>

NextOrder ==
    \/ \E c \in Conns : handleConnection(c)
    \/ \E c \in Conns : handleDisconnect(c)
    \/ \E u \in UserIds : sendMessageToUserOnWire(u)
    \/ \E c \in Conns : Arrive(c)

SpecOrder == RouterInit /\ [][NextOrder]_vars

RequestFrame ==
    UNCHANGED << io, nextId, connState, credentialOk, socketUserId, userSockets,
                 rooms, emitted, loopVars, routerVars, wireVars, homeVars,
                 clientVars, otpVars, conversationVars >>

\* An awaited database call of request r resolves (the request goes on to
\* `next`) or rejects (sendMessage passes the error to the error handler).
Await(r, from, next, onError) ==
    /\ reqAt[r] = from
    /\ \E ok \in BOOLEAN :
         reqAt' = [reqAt EXCEPT ![r] = IF ok THEN next ELSE onError]

\* sendMessage, lines 218-235: validation, Conversation.findById and the
\* participant check.
smCheck(r) ==
    /\ Await(r, "idle", "sm:checked", "failed")
    /\ outbox' = << >>
    /\ UNCHANGED << messageRows, notificationRows >>
    /\ RequestFrame

\* sendMessage, lines 238-245: await Message.create(...)
smCreate(r) ==
    /\ Await(r, "sm:checked", "sm:created", "failed")
    /\ messageRows' = IF reqAt'[r] = "sm:created"
                      THEN messageRows \cup {r} ELSE messageRows
    /\ outbox' = << >>
    /\ UNCHANGED notificationRows
    /\ RequestFrame

\* sendMessage, lines 248-250: await conversation.save()
smSave(r) ==
    /\ Await(r, "sm:created", "sm:saved", "failed")
    /\ outbox' = << >>
    /\ UNCHANGED << messageRows, notificationRows >>
    /\ RequestFrame

\* sendMessage, line 253: await message.populate(...)
smPopulate(r) ==
    /\ Await(r, "sm:saved", "sm:populated", "failed")
    /\ outbox' = << >>
    /\ UNCHANGED << messageRows, notificationRows >>
    /\ RequestFrame

\* The mutant: the push is made as soon as the conversation was checked.
MessageReadyToPushEarly(r) == reqAt[r] \in {"sm:checked", "sm:populated"}

\* The statement before the push of sendMessage is the populate of line 253.
MessageReadyToPush(r) == reqAt[r] = "sm:populated"

\* sendMessage, lines 256-290: socketService.sendMessageToUser(recipientId)
\* and the 201 response.
smPush(r) ==
    /\ MessageReadyToPush(r)
    /\ \E u \in UserIds :
         outbox' = IF io THEN << EmitToRoom(rooms, roomOfUser(u), "message:new") >>
                   ELSE << >>
    /\ reqAt' = [reqAt EXCEPT ![r] = "done"]
    /\ UNCHANGED << messageRows, notificationRows >>
    /\ RequestFrame

\* createNotification, lines 19-32: a notification to oneself returns at
\* once; a rejected Notification.create is caught and logged.
cnCreate(r) ==
    /\ Await(r, "idle", "cn:created", "done")
    /\ notificationRows' = IF reqAt'[r] = "cn:created"
                           THEN notificationRows \cup {r} ELSE notificationRows
    /\ outbox' = << >>
    /\ UNCHANGED messageRows
    /\ RequestFrame

\* createNotification, line 35: await notification.populate(...)
cnPopulate(r) ==
    /\ Await(r, "cn:created", "cn:populated", "done")
    /\ outbox' = << >>
    /\ UNCHANGED << messageRows, notificationRows >>
    /\ RequestFrame

\* createNotification, lines 38-49: socketService.sendNotificationToUser
cnPush(r) ==
    /\ reqAt[r] = "cn:populated"
    /\ \E u \in UserIds :
         outbox' = IF io THEN << EmitToRoom(rooms, roomOfUser(u), "notification") >>
                   ELSE << >>
    /\ reqAt' = [reqAt EXCEPT ![r] = "done"]
    /\ UNCHANGED << messageRows, notificationRows >>
    /\ RequestFrame

\* The requests run against a server that was not initialized (no socket
\* can connect) or against one whose sockets wait to be admitted.
StoreInit == Init \/ RouterInit

NextStore ==
    \/ \E c \in Conns : handleConnection(c)
    \/ \E c \in Conns : TransportFails(c)
    \/ \E r \in Requests : smCheck(r)
    \/ \E r \in Requests : smCreate(r)
    \/ \E r \in Requests : smSave(r)
    \/ \E r \in Requests : smPopulate(r)
    \/ \E r \in Requests : smPush(r)
    \/ \E r \in Requests : cnCreate(r)
    \/ \E r \in Requests : cnPopulate(r)
    \/ \E r \in Requests : cnPush(r)

SpecStore == StoreInit /\ [][NextStore]_vars

\* The step is the push of request r.
Pushes(r) == smPush(r) \/ cnPush(r)

\* C22: when a request pushes, its Message or Notification row is already in
\* the store, and the push leaves the rows as they are whatever comes of it
\* (server not initialized, recipient offline, write dropped); no step ever
\* removes a row.
C22_RowBeforePushAndKept ==
    [][ /\ \A r \in Requests :
             /\ smPush(r) => r \in messageRows
             /\ cnPush(r) => r \in notificationRows
             /\ Pushes(r) => /\ messageRows' = messageRows
                             /\ notificationRows' = notificationRows
        /\ messageRows \subseteq messageRows'
        /\ notificationRows \subseteq notificationRows' ]_vars

C22_Witness ==
    \E r \in Requests :
        /\ reqAt[r] = "done" /\ r \in messageRows
        /\ Len(outbox) = 1 /\ outbox[1].event = "message:new"
        /\ outbox[1].to # {} /\ outbox[1].pushed = {}

\* ------------------------------------------------------------------ presence audience
\* C23: every presence event goes to exactly the sockets that are connected
\* when it is emitted, whoever their users are; a socket that is not (yet, or
\* no longer) connected is not among its receivers.
C23_PresenceToAllConnected ==
    [][ \A i \in 1..Len(outbox') :
          outbox'[i].event = "user:status" =>
              /\ outbox'[i].to = Connected'
              /\ \A c \in Conns :
                    connState'[c] # "ADMITTED" => c \notin outbox'[i].to ]_vars

C23_Witness ==
    /\ Len(outbox) = 1
    /\ outbox[1].event = "user:status"
    /\ \E c, d \in outbox[1].to :
         /\ socketUserId[c] = outbox[1].userId
         /\ socketUserId[d] # outbox[1].userId
    /\ \E e \in Conns : connState[e] = "VERIFIED" /\ e \notin outbox[1].to

\* ------------------------------------------------------------------ user rooms
\* Post ids a client may send to reach for another user's room: the name of
\* that room and the bare user id.
HostilePostIds == { roomOfUser("u1"), "u1" }

\* Admits and evicts with clients that send such post ids in post:join and
\* post:leave.
NextUserRooms ==
    \/ \E c \in Conns : handleConnection(c)
    \/ \E c \in Conns : handleDisconnect(c)
    \/ \E c \in Conns, p \in HostilePostIds : postJoin(c, p)
    \/ \E c \in Conns, p \in HostilePostIds : postLeave(c, p)

SpecUserRooms == RouterInit /\ [][NextUserRooms]_vars

\* C24: the members of room user:U are the socket ids the registry holds for
\* U, for every user U, whatever post ids the clients send in post:join and
\* post:leave.
C24_UserRoomIsRegistrySet ==
    \A u \in UserIds :
        /\ RoomMembers(rooms, roomOfUser(u))
             = (IF MapHas(userSockets, u) THEN MapGet(userSockets, u) ELSE {})
        /\ RoomMembers(rooms, roomOfUser(u)) = Live(u)
        /\ isUserOnline(u) <=> roomOfUser(u) \in DOMAIN rooms

C24_Witness ==
    \E c, d \in Conns :
        /\ socketUserId[d] = "u1" /\ socketUserId[c] # "u1"
        /\ connState[c] = "ADMITTED" /\ connState[d] = "ADMITTED"
        /\ { roomOfPost(p) : p \in HostilePostIds } \subseteq subscribed[c]
        /\ RoomMembers(rooms, roomOfUser("u1")) = {d}
        /\ MapGet(userSockets, "u1") = {d}

\* ------------------------------------------------------------------ home page
\* The presence packets of a handler as the page's socket gets them.
StatusPackets(out) ==
    [i \in 1..Len(out) |-> [userId |-> out[i].userId, isOnline |-> out[i].isOnline]]

\* handleConnection(socket), with its user:status broadcast followed to the
\* socket of the home page.
handleConnectionOnWire(c) ==
    /\ connState[c] = "VERIFIED"
    /\ LET userId == socketUserId[c]
           out == PresenceOnConnect(userSockets, userId, c, Connected \cup {c})
       IN  /\ userSockets' = RegistryAfterConnect(userSockets, userId, c)
           /\ rooms' = Join(rooms, c, roomOfUser(userId))
           /\ outbox' = out
           /\ emitted' = Tally(out)
           /\ statusFeed' = statusFeed \o StatusPackets(out)
    /\ connState' = [connState EXCEPT ![c] = "ADMITTED"]
    /\ UNCHANGED << io, nextId, credentialOk, socketUserId, loopVars, routerVars,
                    wireVars, storeVars, snapshot, followingUsers, clientVars,
                    otpVars, conversationVars >>

\* handleDisconnect(socket, userId, username), followed the same way.
handleDisconnectOnWire(c) ==
    /\ connState[c] = "ADMITTED"
    /\ LET userId == socketUserId[c]
           out == PresenceOnDisconnect(userSockets, userId, c, Connected \ {c})
       IN  /\ userSockets' = RegistryAfterDisconnect(userSockets, userId, c)
           /\ rooms' = LeaveAll(rooms, c)
           /\ outbox' = out
           /\ emitted' = Tally(out)
           /\ statusFeed' = statusFeed \o StatusPackets(out)
    /\ connState' = [connState EXCEPT ![c] = "EVICTED"]
    /\ UNCHANGED << io, nextId, credentialOk, socketUserId, loopVars, routerVars,
                    wireVars, storeVars, snapshot, followingUsers, clientVars,
                    otpVars, conversationVars >>

\* What a step of the page or of its request leaves alone.
HomeFrame ==
    /\ outbox' = << >>
    /\ UNCHANGED << io, nextId, connState, credentialOk, socketUserId,
                    userSockets, rooms, emitted, loopVars, routerVars, wireVars,
                    storeVars, clientVars, otpVars, conversationVars >>

\* The users the viewer follows, in the order Follower.find returns them.
Followed == [i \in 1..MaxUsers |-> "u" \o ToString(i)]

\* getFollowingWithStatus, lines 392-408: each followed user with isOnline
\* taken from getOnlineUserIds(), sorted online first (the sort is stable).
FollowingWithStatus ==
    LET onlineUserIds == getOnlineUserIds
        onlineUserIdSet == { onlineUserIds[i] : i \in 1..Len(onlineUserIds) }
        users == [i \in 1..Len(Followed) |->
                     [id |-> Followed[i], isOnline |-> Followed[i] \in onlineUserIdSet]]
        IsOn(x) == x.isOnline
        IsOff(x) == ~x.isOnline
    IN  SelectSeq(users, IsOn) \o SelectSeq(users, IsOff)

\* The server handles the page's getFollowingWithStatus request.
getFollowingWithStatus ==
    /\ snapshot.at = "requested"
    /\ snapshot' = [at |-> "answered", users |-> FollowingWithStatus]
    /\ UNCHANGED << statusFeed, followingUsers >>
    /\ HomeFrame

\* fetchFollowingUsers, lines 38-39: the response arrives and
\* setFollowingUsers(response.data.users) replaces the list.
fetchFollowingUsers ==
    /\ snapshot.at = "answered"
    /\ followingUsers' = snapshot.users
    /\ snapshot' = [snapshot EXCEPT !.at = "consumed"]
    /\ UNCHANGED statusFeed
    /\ HomeFrame

\* handleStatusChange(data), lines 55-64: the next user:status packet arrives
\* and the list is mapped, the entry of data.userId taking data.isOnline.
handleStatusChange ==
    /\ statusFeed # << >>
    /\ LET data == Head(statusFeed) IN
       followingUsers' =
           [i \in 1..Len(followingUsers) |->
               IF followingUsers[i].id = data.userId
               THEN [followingUsers[i] EXCEPT !.isOnline = data.isOnline]
               ELSE followingUsers[i]]
    /\ statusFeed' = Tail(statusFeed)
    /\ UNCHANGED snapshot
    /\ HomeFrame

NextHome ==
    \/ \E c \in Conns : handleConnectionOnWire(c)
    \/ \E c \in Conns : handleDisconnectOnWire(c)
    \/ getFollowingWithStatus
    \/ fetchFollowingUsers
    \/ handleStatusChange

SpecHome == RouterInit /\ [][NextHome]_vars

\* C25: once the page has put the response in its list and has handled every
\* status packet sent so far, the list shows each followed user exactly as
\* the server's isUserOnline does.
C25_PageAgreesWithServer ==
    (snapshot.at = "consumed" /\ statusFeed = << >>) =>
        /\ Len(followingUsers) = Len(Followed)
        /\ \A i \in 1..Len(followingUsers) :
              followingUsers[i].isOnline = isUserOnline(followingUsers[i].id)

\* ------------------------------------------------------------------ SocketClient
\* private maxReconnectAttempts = 5
maxReconnectAttempts == 5

\* What a call or an event of the client leaves alone.
ClientFrame ==
    /\ outbox' = << >>
    /\ UNCHANGED << io, nextId, connState, credentialOk, socketUserId,
                    userSockets, rooms, emitted, loopVars, routerVars, wireVars,
                    storeVars, homeVars, otpVars, conversationVars >>

\* The sockets made so far that are open or still trying to connect.
AliveSockets == { s \in ClientSockets : clientSocket[s] \in {"connecting", "connected"} }

\* connect(): nothing without a session, nothing when the held socket is
\* connected; otherwise a new socket from io() replaces the held one, which
\* is not closed.
connect(isAuthenticated) ==
    /\ IF ~isAuthenticated
       THEN UNCHANGED << socket, clientSocket >>
       ELSE IF socket # 0 /\ clientSocket[socket] = "connected"
       THEN UNCHANGED << socket, clientSocket >>
       ELSE \E s \in ClientSockets :
              /\ clientSocket[s] = "none"
              /\ \A t \in ClientSockets : t < s => clientSocket[t] # "none"
              /\ clientSocket' = [clientSocket EXCEPT ![s] = "connecting"]
              /\ socket' = s
    /\ UNCHANGED << reconnectAttempts, errorsSince >>
    /\ ClientFrame

\* disconnect(): the held socket is closed and dropped.
disconnect ==
    /\ IF socket # 0
       THEN /\ clientSocket' = [clientSocket EXCEPT ![socket] = "closed"]
            /\ socket' = 0
       ELSE UNCHANGED << socket, clientSocket >>
    /\ UNCHANGED << reconnectAttempts, errorsSince >>
    /\ ClientFrame

\* socket.on("connect"): socket s, made by some connect(), is connected.
onConnect(s) ==
    /\ clientSocket[s] = "connecting"
    /\ clientSocket' = [clientSocket EXCEPT ![s] = "connected"]
    /\ reconnectAttempts' = 0
    /\ errorsSince' = [errorsSince EXCEPT ![s] = 0]
    /\ UNCHANGED socket
    /\ ClientFrame

\* socket.on("disconnect"): the transport of s is lost; with reconnection on,
\* socket.io-client starts to reconnect it.
onDisconnect(s) ==
    /\ clientSocket[s] = "connected"
    /\ clientSocket' = [clientSocket EXCEPT ![s] = "connecting"]
    /\ UNCHANGED << socket, reconnectAttempts, errorsSince >>
    /\ ClientFrame

\* socket.on("connect_error"): an attempt of socket s failed. The handler
\* counts it in the client's one counter and, at the limit, calls
\* this.disconnect(), which closes the socket the client holds now. The
\* manager of s itself gives up after reconnectionAttempts retries.
onConnectError(s) ==
    /\ clientSocket[s] = "connecting"
    /\ reconnectAttempts' = reconnectAttempts + 1
    /\ errorsSince' = [errorsSince EXCEPT ![s] = @ + 1]
    /\ LET givesUp == reconnectAttempts' >= maxReconnectAttempts
           closing == (IF givesUp /\ socket # 0 THEN {socket} ELSE {})
                        \cup (IF errorsSince'[s] > maxReconnectAttempts THEN {s} ELSE {})
       IN  /\ clientSocket' = [t \in ClientSockets |->
                                 IF t \in closing THEN "closed" ELSE clientSocket[t]]
           /\ socket' = IF givesUp THEN 0 ELSE socket
    /\ ClientFrame

NextClient ==
    \/ \E isAuthenticated \in BOOLEAN : connect(isAuthenticated)
    \/ disconnect
    \/ \E s \in ClientSockets : onConnect(s)
    \/ \E s \in ClientSockets : onDisconnect(s)
    \/ \E s \in ClientSockets : onConnectError(s)

SpecClient == Init /\ [][NextClient]_vars

\* C26: every socket the client made that is open or connecting is the one
\* it holds in this.socket, so at most one such socket exists.
C26_AtMostOneSocketAlive ==
    /\ AliveSockets \subseteq {socket}
    /\ Cardinality(AliveSockets) <= 1

\* C27: reconnectAttempts never exceeds maxReconnectAttempts, and the step in
\* which a connect_error handler gives up the held socket finds that socket
\* with maxReconnectAttempts connect_error events since it was made or last
\* connected.
C27_GiveUpAfterMaxAttempts ==
    /\ [](reconnectAttempts <= maxReconnectAttempts)
    /\ [][(reconnectAttempts' = reconnectAttempts + 1 /\ socket # 0 /\ socket' = 0)
             => errorsSince'[socket] >= maxReconnectAttempts]_vars

\* ------------------------------------------------------------------ typing
\* The mutant: the event goes to the whole room, the sender included.
EmitToRoomIncludingSender(r, room, event, sender) ==
    EmitToRoom(r, room, event)

\* socket.to(room).emit(event, ...): the members of the room other than the
\* socket the call is made on.
EmitToRoomExcept(r, room, event, sender) ==
    LET to == RoomMembers(r, room) \ {sender} IN
    [event |-> event, room |-> room, to |-> to,
     pushed |-> { c \in to : transportOpen[c] },
     threw |-> FALSE]

\* A typing message of the admitted socket c: one broadcast, no room changes.
TypingFrame ==
    UNCHANGED << io, nextId, connState, credentialOk, socketUserId, userSockets,
                 rooms, emitted, loopVars, appVars, routerVars >>

\* socket.on("typing:start", (data) => socket.to(`post:${data.postId}`).emit("user:typing", ...))
typingStart(c, postId) ==
    /\ connState[c] = "ADMITTED" /\ transportOpen[c]
    /\ outbox' = << EmitToRoomExcept(rooms, roomOfPost(postId), "user:typing", c) >>
    /\ TypingFrame

\* socket.on("typing:stop", (data) => socket.to(`post:${data.postId}`).emit("user:stop-typing", ...))
typingStop(c, postId) ==
    /\ connState[c] = "ADMITTED" /\ transportOpen[c]
    /\ outbox' = << EmitToRoomExcept(rooms, roomOfPost(postId), "user:stop-typing", c) >>
    /\ TypingFrame

NextTyping ==
    \/ \E c \in Conns : handleConnection(c)
    \/ \E c \in Conns : handleDisconnect(c)
    \/ \E c \in Conns, p \in PostIds : postJoin(c, p)
    \/ \E c \in Conns, p \in PostIds : postLeave(c, p)
    \/ \E c \in Conns, p \in PostIds : typingStart(c, p)
    \/ \E c \in Conns, p \in PostIds : typingStop(c, p)

SpecTyping == RouterInit /\ [][NextTyping]_vars

\* C28: a typing:start or typing:stop message of the admitted socket c for
\* post P is pushed to exactly the sockets that are in room post:P at that
\* moment other than c: c is never among the receivers, and no socket
\* outside the room is.
C28_TypingToOthersInRoom ==
    [][ \A c \in Conns, p \in PostIds :
          /\ typingStart(c, p) =>
                /\ outbox'[1].event = "user:typing"
                /\ outbox'[1].pushed = Subscribers(roomOfPost(p)) \ {c}
                /\ c \notin outbox'[1].pushed
          /\ typingStop(c, p) =>
                /\ outbox'[1].event = "user:stop-typing"
                /\ outbox'[1].pushed = Subscribers(roomOfPost(p)) \ {c}
                /\ c \notin outbox'[1].pushed ]_vars

\* A typing event sent from inside a room of two reached the other member only.
C28_Witness ==
    /\ outbox # << >>
    /\ outbox[1].event \in {"user:typing", "user:stop-typing"}
    /\ \E c \in Conns, d \in Conns :
         /\ c # d
         /\ RoomMembers(rooms, outbox[1].room) = {c, d}
         /\ outbox[1].pushed \in {{c}, {d}}

\* ------------------------------------------------------------------ OTPService.verifyOTP
\* private readonly MAX_ATTEMPTS = parseInt(process.env.OTP_MAX_ATTEMPTS || '3')
MAX_ATTEMPTS == 3

\* What a step of a verifyOTP call leaves alone.
OtpFrame ==
    /\ outbox' = << >>
    /\ UNCHANGED << io, nextId, connState, credentialOk, socketUserId,
                    userSockets, rooms, emitted, loopVars, routerVars, wireVars,
                    storeVars, homeVars, clientVars, conversationVars >>

\* OTP.findOne({ email, type, isUsed: false, expiresAt: { $gt: now } }): the
\* call loads its own copy of the document, or returns false without one.
\* A call ends at "no otp" or "invalid" (false), "returned true", or with a
\* throw at "max attempts", "save failed" or "mark failed".
verifyFind(v, rightCode) ==
    /\ verifyAt[v] = "idle"
    /\ verifyGuess' = [verifyGuess EXCEPT ![v] = rightCode]
    /\ IF otpDoc.exists /\ ~otpDoc.isUsed
       THEN /\ verifyAt' = [verifyAt EXCEPT ![v] = "loaded"]
            /\ verifyCopy' = [verifyCopy EXCEPT ![v] = otpDoc.attempts]
       ELSE /\ verifyAt' = [verifyAt EXCEPT ![v] = "no otp"]
            /\ UNCHANGED verifyCopy
    /\ UNCHANGED otpDoc
    /\ OtpFrame

\* The attempts test on the loaded copy. At the limit the document is deleted
\* and the call throws; below it the copy is incremented and saved, which
\* sets the stored attempts to the copy's value (the save of a document
\* deleted meanwhile throws).
verifyCount(v) ==
    /\ verifyAt[v] = "loaded"
    /\ IF verifyCopy[v] >= MAX_ATTEMPTS
       THEN /\ otpDoc' = [otpDoc EXCEPT !.exists = FALSE]
            /\ verifyAt' = [verifyAt EXCEPT ![v] = "max attempts"]
            /\ UNCHANGED verifyCopy
       ELSE /\ verifyCopy' = [verifyCopy EXCEPT ![v] = @ + 1]
            /\ IF otpDoc.exists
               THEN /\ otpDoc' = [otpDoc EXCEPT !.attempts = verifyCopy[v] + 1]
                    /\ verifyAt' = [verifyAt EXCEPT ![v] = "counted"]
               ELSE /\ UNCHANGED otpDoc
                    /\ verifyAt' = [verifyAt EXCEPT ![v] = "save failed"]
    /\ UNCHANGED verifyGuess
    /\ OtpFrame

\* otpDoc.compareOTP(otp): bcrypt.compare of the guess with the copy's hash.
verifyCompare(v) ==
    /\ verifyAt[v] = "counted"
    /\ verifyAt' = [verifyAt EXCEPT ![v] = IF verifyGuess[v] THEN "valid" ELSE "invalid"]
    /\ UNCHANGED << otpDoc, verifyCopy, verifyGuess >>
    /\ OtpFrame

\* if (isValid) { otpDoc.isUsed = true; await otpDoc.save(); return true; }
verifyMarkUsed(v) ==
    /\ verifyAt[v] = "valid"
    /\ IF otpDoc.exists
       THEN /\ otpDoc' = [otpDoc EXCEPT !.isUsed = TRUE]
            /\ verifyAt' = [verifyAt EXCEPT ![v] = "returned true"]
       ELSE /\ UNCHANGED otpDoc
            /\ verifyAt' = [verifyAt EXCEPT ![v] = "mark failed"]
    /\ UNCHANGED << verifyCopy, verifyGuess >>
    /\ OtpFrame

NextVerify ==
    \/ \E v \in Verifies, rightCode \in BOOLEAN : verifyFind(v, rightCode)
    \/ \E v \in Verifies : verifyCount(v)
    \/ \E v \in Verifies : verifyCompare(v)
    \/ \E v \in Verifies : verifyMarkUsed(v)

SpecVerify == Init /\ [][NextVerify]_vars

\* The calls whose guess has been compared with the document's hash.
Compared ==
    { v \in Verifies :
        verifyAt[v] \in {"valid", "invalid", "returned true", "mark failed"} }

\* C29: whatever the interleaving of verifyOTP calls, at most MAX_ATTEMPTS
\* guesses are compared with one OTP document, and at most one call is
\* answered true for it.
C29_AttemptsAndSingleUse ==
    /\ Cardinality(Compared) <= MAX_ATTEMPTS
    /\ Cardinality({ v \in Verifies : verifyAt[v] = "returned true" }) <= 1

\* ------------------------------------------------------------------ getOrCreateConversation
\* What a step of a getOrCreateConversation request leaves alone.
ConversationFrame ==
    /\ outbox' = << >>
    /\ UNCHANGED << io, nextId, connState, credentialOk, socketUserId,
                    userSockets, rooms, emitted, loopVars, routerVars, wireVars,
                    storeVars, homeVars, clientVars, otpVars >>

\* { participants: { $all: [a, b], $size: 2 } }
MatchesPair(participants, a, b) ==
    /\ Len(participants) = 2
    /\ {a, b} \subseteq { participants[i] : i \in 1..Len(participants) }

\* Conversation.findOne(...): the first stored document that matches, 0 for null.
FindConversation(a, b) ==
    LET hits == { i \in 1..Len(conversations) : MatchesPair(conversations[i], a, b) } IN
    IF hits = {} THEN 0 ELSE CHOOSE i \in hits : \A j \in hits : i <= j

\* The request's checks before it looks for a conversation: not with
\* oneself, the other user exists, the requester follows the other user.
gcValidate(g, userId, otherUserId, otherExists, isFollowing) ==
    /\ gcAt[g] = "idle"
    /\ gcUsers' = [gcUsers EXCEPT ![g] = << userId, otherUserId >>]
    /\ gcAt' = [gcAt EXCEPT ![g] =
                  IF userId = otherUserId THEN "validation error"
                  ELSE IF ~otherExists THEN "not found"
                  ELSE IF ~isFollowing THEN "forbidden"
                  ELSE "looking"]
    /\ UNCHANGED << conversations, gcConversation >>
    /\ ConversationFrame

\* let conversation = await Conversation.findOne({ participants: ... })
gcFind(g) ==
    /\ gcAt[g] = "looking"
    /\ LET found == FindConversation(gcUsers[g][1], gcUsers[g][2]) IN
       /\ gcConversation' = [gcConversation EXCEPT ![g] = found]
       /\ gcAt' = [gcAt EXCEPT ![g] = IF found = 0 THEN "missing" ELSE "have"]
    /\ UNCHANGED << conversations, gcUsers >>
    /\ ConversationFrame

\* if (!conversation) { conversation = await Conversation.create({ participants: [userId, otherUserId] }) }
gcCreate(g) ==
    /\ gcAt[g] = "missing"
    /\ conversations' = Append(conversations, gcUsers[g])
    /\ gcConversation' = [gcConversation EXCEPT ![g] = Len(conversations) + 1]
    /\ gcAt' = [gcAt EXCEPT ![g] = "have"]
    /\ UNCHANGED gcUsers
    /\ ConversationFrame

\* res.status(200).json({ ... conversation: { id: conversation._id, ... } })
gcRespond(g) ==
    /\ gcAt[g] = "have"
    /\ gcAt' = [gcAt EXCEPT ![g] = "responded"]
    /\ UNCHANGED << conversations, gcUsers, gcConversation >>
    /\ ConversationFrame

NextConversation ==
    \/ \E g \in GetOrCreates, userId \in UserIds, otherUserId \in UserIds,
          otherExists \in BOOLEAN, isFollowing \in BOOLEAN :
             gcValidate(g, userId, otherUserId, otherExists, isFollowing)
    \/ \E g \in GetOrCreates : gcFind(g)
    \/ \E g \in GetOrCreates : gcCreate(g)
    \/ \E g \in GetOrCreates : gcRespond(g)

SpecConversation == Init /\ [][NextConversation]_vars

\* C30: for two distinct users there is at most one stored conversation of
\* exactly these two, and every request between them that was answered was
\* answered with that same conversation.
C30_OneConversationPerPair ==
    \A a \in UserIds, b \in UserIds :
       a # b =>
          /\ Cardinality({ i \in 1..Len(conversations) :
                             MatchesPair(conversations[i], a, b) }) <= 1
          /\ \A g \in GetOrCreates, h \in GetOrCreates :
                ( /\ gcAt[g] = "responded" /\ gcAt[h] = "responded"
                  /\ { gcUsers[g][1], gcUsers[g][2] } = {a, b}
                  /\ { gcUsers[h][1], gcUsers[h][2] } = {a, b} )
                => gcConversation[g] = gcConversation[h]

====
